---- MODULE Spec2Model ----
(***************************************************************************)
(* A model of radiant's `load` (src/src/lib.rs): the magic check, the      *)
(* header hand-off, the buffer allocation, the per-row scanline dispatcher *)
(* and the old-format and new-format run-length decoders, over a buffered  *)
(* byte source whose bytes are chosen as they are read.                    *)
(***************************************************************************)
EXTENDS Integers, Sequences, FiniteSets, TLC

(* ------------------------------ bounds -------------------------------- *)
\* usize is modelled as a USIZE_BITS-bit word (the platform's is 32 or 64).
USIZE_BITS == 16
\* Largest modelled row width and row count of a header that is decoded.
MaxWidth == 8
MaxHeight == 2
\* A header whose width*height neither overflows nor is at most MaxPixels is
\* not drawn (its buffer would be too large to enumerate).
MaxPixels == 16
\* The pixel data of a modelled stream holds at most MaxData bytes.
MaxData == 20
\* Largest number of bytes one refill of the source's buffer delivers.
MaxChunk == 3
\* Number of bytes of the (opaque) header text.
HeaderLen == 1
\* Largest ordinary coordinate passed to Image::pixel.
MaxCoord == 2

(* ----------------------------- constants ------------------------------ *)
MIN_LEN == 8
MAX_LEN == 32767
MAGIC == <<35, 63, 82, 65, 68, 73, 65, 78, 67, 69>>

RECURSIVE Pow2(_)
Pow2(n) == IF n = 0 THEN 1 ELSE 2 * Pow2(n - 1)

USIZE_MAX == Pow2(USIZE_BITS) - 1

None == -1

Min(a, b) == IF a < b THEN a ELSE b

(* --------------------- checked integer arithmetic --------------------- *)
\* usize::checked_shl(1, s): None when the shift is at least the word size.
CheckedShl1(s) == IF s >= USIZE_BITS THEN None ELSE Pow2(s)

\* usize::checked_mul, decided without forming a product that leaves the word.
CheckedMul(a, b) ==
    IF a = 0 \/ b = 0 THEN 0
    ELSE IF b > USIZE_MAX \div a THEN None
    ELSE a * b

\* a * b modulo 2^USIZE_BITS, by doubling (what an unchecked multiply gives).
RECURSIVE WrappingMul(_, _)
WrappingMul(a, b) ==
    IF b = 0 THEN 0
    ELSE (2 * WrappingMul(a, b \div 2) + (IF b % 2 = 1 THEN a ELSE 0))
             % (USIZE_MAX + 1)

(* ------------------------------ RGBE codec ---------------------------- *)
\* An f32 reached by the decoder is m * 2^x / 255^s with m odd, or zero.
\* (Rounding in the subnormal range is not modelled.)
RECURSIVE OddPart(_)
OddPart(v) == IF v % 2 = 1 THEN v ELSE OddPart(v \div 2)

RECURSIVE TwoExp(_)
TwoExp(v) == IF v % 2 = 1 THEN 0 ELSE 1 + TwoExp(v \div 2)

FZero == [m |-> 0, x |-> 0, s |-> 0]

\* `val as f32`
AsF32(v) == IF v = 0 THEN FZero ELSE [m |-> OddPart(v), x |-> TwoExp(v), s |-> 0]

\* f *= 2_f32.powi(expo - 128) / 255_f32
Scale(f, expo) ==
    IF f.m = 0 THEN FZero ELSE [m |-> f.m, x |-> f.x + (expo - 128), s |-> f.s + 1]

ZeroRGB == [r |-> FZero, g |-> FZero, b |-> FZero]

apply_exposure(p, expo) ==
    [r |-> Scale(p.r, expo), g |-> Scale(p.g, expo), b |-> Scale(p.b, expo)]

\* impl From<RGBE> for RGB
RGBFrom(px) ==
    apply_exposure([r |-> AsF32(px[1]), g |-> AsF32(px[2]), b |-> AsF32(px[3])], px[4])

is_rle_marker(px) == px[1] = 1 /\ px[2] = 1 /\ px[3] = 1

is_new_decrunch_marker(px) == px[1] = 2 /\ px[2] = 2 /\ (px[3] \div 128) % 2 = 0

\* A slip: the exponent pass leaves the pixel as it is, the conversion
\* being left for later and never made.
mutate_pixel_unexposed(pl, p, val) ==
    CASE pl = 0 -> [p EXCEPT !.r = AsF32(val)]
      [] pl = 1 -> [p EXCEPT !.g = AsF32(val)]
      [] pl = 2 -> [p EXCEPT !.b = AsF32(val)]
      [] OTHER  -> p

\* The four closures handed to decrunch_channel, by plane number.
mutate_pixel(pl, p, val) ==
    CASE pl = 0 -> [p EXCEPT !.r = AsF32(val)]
      [] pl = 1 -> [p EXCEPT !.g = AsF32(val)]
      [] pl = 2 -> [p EXCEPT !.b = AsF32(val)]
      [] OTHER  -> apply_exposure(p, val)

(* ------------------------------ inputs -------------------------------- *)
MagicBufs == {MAGIC, [MAGIC EXCEPT ![10] = 0], [MAGIC EXCEPT ![1] = 0]}

HugeDims == {Pow2(USIZE_BITS - 1), USIZE_MAX}
Widths == (0..MaxWidth) \cup HugeDims
Heights == (0..MaxHeight) \cup HugeDims

\* RawPixels a stream may hold: a new-format marker, a pixel that misses
\* being one by the high bit of b, and old-format RLE markers of count
\* 0, 1 and 7 (times 2^l_shift).
RawPixels ==
    { <<2, 2, 0, 8>>, <<2, 2, 130, 129>>,
      <<1, 1, 1, 0>>, <<1, 1, 1, 1>>, <<1, 1, 1, 7>> }

\* Control bytes of the new format: literals (<= 128) and runs (> 128).
Codes == {0, 2, 128, 134, 136, 137}

\* Data bytes of the new format, a run's and a literal's: the two values
\* alternate along the stream, so that neighbours differ (k is the byte's
\* offset in the pixel data).
Vals == {2, 129}
LitByte(k) == IF k % 2 = 0 THEN 2 ELSE 129

(* ------------------------------- state -------------------------------- *)
VARIABLES
    pc,          \* where load is
    result,      \* "none" while running, then "Ok" or the LoadError, or "Panic"
    image,       \* the Image returned, NoImage otherwise
    failures,    \* the errors raised by the steps so far, in order
    pos,         \* bytes consumed from the source
    buffered,    \* bytes held in the source's buffer, not yet consumed
    hitEof,      \* a read asked for more bytes than the source holds
    buf,         \* the 10 bytes read for the magic check
    width, height, hdrEnd,   \* parse_header's result and the position it leaves
    data,        \* the pixel buffer, indexed from 0
    row,         \* the row loop's index
    touched,     \* the indices of data written while decoding the current row
    cur,         \* offset in the row of the decoder's remaining slice
    l_shift, plane, bytes_left,
    rgbe, code, count,       \* the last RawPixel, control byte and count
    first, scheme,           \* per decoded row: its first RawPixel, its decoder
    allocated,   \* the length of the buffer allocated, None before that
    calls,       \* the steps of load entered so far
    lit,         \* the literal being copied: where it starts, the room it has
    streak,      \* RLE markers accepted in a row since the last pixel
    writes,      \* per pixel of the row: assignments in the current pass
    raw,         \* per pixel of the row: the bytes the four passes gave it
    decoded,     \* bytes of pixel data whose value the decoder has used
    lookup       \* the last call of Image::pixel on the Image returned

ctl == <<pc, result, image, failures>>
rdr == <<pos, buffered, hitEof>>
hdr == <<buf, width, height, hdrEnd>>
img == <<data, row, touched>>
dec == <<cur, l_shift, plane, bytes_left, rgbe, code, count>>
hist == <<first, scheme, allocated, calls>>
obs == <<lit, streak, writes, raw, decoded>>
vars == <<ctl, rdr, hdr, img, dec, hist, obs, lookup>>

NoImage == [width |-> 0, height |-> 0, data |-> <<>>, none |-> TRUE]
NoPixel == <<0, 0, 0, 0>>
NoLit == [at |-> 0, room |-> 0, n |-> 0]
NoLookup == [x |-> 0, y |-> 0, panic |-> FALSE, px |-> ZeroRGB, none |-> TRUE]

Init ==
    /\ pc = "magic" /\ result = "none" /\ image = NoImage /\ failures = <<>>
    /\ pos = 0 /\ buffered = 0 /\ hitEof = FALSE
    /\ buf = <<>> /\ width = 0 /\ height = 0 /\ hdrEnd = 0
    /\ data = <<>> /\ row = 0 /\ touched = {}
    /\ cur = 0 /\ l_shift = 0 /\ plane = 0 /\ bytes_left = 0
    /\ rgbe = NoPixel /\ code = 0 /\ count = 0
    /\ first = <<>> /\ scheme = <<>>
    /\ allocated = None /\ calls = {}
    /\ lit = NoLit /\ streak = 0 /\ writes = <<>> /\ raw = <<>> /\ decoded = 0
    /\ lookup = NoLookup

(* ---------------------------- error paths ----------------------------- *)
\* A slip: every io error is passed through as Io.
FromIoErrorAlwaysIo(kind) == "Io"

\* impl From<IoError> for LoadError
FromIoError(kind) == IF kind = "UnexpectedEof" THEN "Eof" ELSE "Io"

\* load's locals are gone once it has returned: the pixel buffer is dropped
\* (or moved into the Image), the decoders' cursors no longer exist. What is
\* left of them is the record of the row and of the pass that was running.
DropLocals ==
    /\ data' = <<>> /\ touched' = {}
    /\ cur' = 0 /\ l_shift' = 0 /\ bytes_left' = 0
    /\ plane' = plane
    /\ streak' = 0 /\ writes' = <<>> /\ raw' = <<>>

\* `?` on an Err(e): load returns Err(e), no Image is built.
Throw(e) ==
    /\ pc' = "done"
    /\ result' = e
    /\ image' = NoImage
    /\ failures' = Append(failures, e)
    /\ DropLocals

\* A slip: a row that fails ends the loop and the rows decoded so far are
\* returned as the Image.
DecodeErrorBreak(e) ==
    /\ pc' = "done"
    /\ result' = "Ok"
    /\ image' = [width |-> width, height |-> height, data |-> data, none |-> FALSE]
    /\ failures' = Append(failures, e)
    /\ DropLocals

\* The `?` of the row loop on decrunch's Err(e).
DecodeError(e) == Throw(e)

\* An index out of range: the thread panics, load returns nothing.
Panic ==
    /\ pc' = "done"
    /\ result' = "Panic"
    /\ image' = NoImage
    /\ failures' = Append(failures, "Panic")
    /\ DropLocals

(* ---------------------------- byte source ----------------------------- *)
\* Bytes of pixel data consumed so far.
DataPos == pos - hdrEnd

\* k bytes leave the source, from its buffer first.
Consume(k) ==
    /\ DataPos + k <= MaxData
    /\ pos' = pos + k
    /\ buffered' = IF buffered >= k THEN buffered - k ELSE 0

\* read_exact(k) finds its k bytes.
ReadOk(k) ==
    /\ Consume(k)
    /\ hitEof' = hitEof

\* read_exact(k) finds j < k bytes and then the end of the source.
ReadEof(k, j) ==
    /\ j >= buffered /\ j < k
    /\ DataPos + j <= MaxData
    /\ pos' = pos + j
    /\ buffered' = 0
    /\ hitEof' = TRUE

\* The source fails with an error other than UnexpectedEof.
ReadIo == UNCHANGED rdr

(* ------------------------------- load --------------------------------- *)
\* The step went through: load is still running.
Going == UNCHANGED <<result, image, failures>>

\* A slip: the signature is read and not compared.
MagicOkAlways(b) == TRUE

\* if &buf != MAGIC
MagicOk(b) == b = MAGIC

\* reader.read_exact(&mut buf)?; if &buf != MAGIC { return Err(FileFormat) }
ReadMagic ==
    /\ pc = "magic"
    /\ calls' = calls \cup {"magic"}
    /\ \/ \E b \in MagicBufs :
            /\ buf' = b
            /\ pos' = pos + Len(MAGIC) /\ buffered' = 0 /\ hitEof' = hitEof
            /\ IF MagicOk(b)
                 THEN /\ pc' = "header"
                      /\ Going
                      /\ UNCHANGED <<data, touched, cur, l_shift, plane, bytes_left>>
                      /\ UNCHANGED <<streak, writes, raw>>
                 ELSE Throw("FileFormat")
       \/ \E j \in 0..(Len(MAGIC) - 1) :
            /\ buf' = buf
            /\ pos' = pos + j /\ buffered' = 0 /\ hitEof' = TRUE
            /\ Throw(FromIoError("UnexpectedEof"))
       \/ /\ buf' = buf
          /\ ReadIo
          /\ Throw(FromIoError("Other"))
    /\ UNCHANGED <<width, height, hdrEnd, row, rgbe, code, count, first, scheme, allocated>>
    /\ UNCHANGED <<lit, decoded, lookup>>

\* dim_parser::parse_header(reader)?: the header text is opaque; it yields
\* (width, height) and leaves the source at the first byte of pixel data, or
\* fails.
HeaderErrors == {"FileFormat", "Eof", "Io"}

parse_header ==
    /\ pc = "header"
    /\ calls' = calls \cup {"parse_header"}
    /\ \/ \E w \in Widths, h \in Heights :
            /\ CheckedMul(w, h) = None \/ CheckedMul(w, h) <= MaxPixels
            /\ width' = w /\ height' = h
            /\ pos' = pos + HeaderLen /\ hdrEnd' = pos + HeaderLen
            /\ pc' = "alloc"
            /\ Going
            /\ UNCHANGED <<data, touched, cur, l_shift, plane, bytes_left>>
            /\ UNCHANGED <<streak, writes, raw>>
       \/ \E e \in HeaderErrors :
            /\ Throw(e)
            /\ UNCHANGED <<width, height, hdrEnd, pos>>
    /\ UNCHANGED <<buffered, hitEof, buf, row, rgbe, code, count, first, scheme, allocated>>
    /\ UNCHANGED <<lit, decoded, lookup>>

\* A slip: the row loop runs whatever the length.
HasPixelsAlways(length) == TRUE

\* if length > 0
HasPixels(length) == length > 0

\* Ok(Image { width, height, data })
ImageOf(w, h, d) == [width |-> w, height |-> h, data |-> d, none |-> FALSE]

\* The buffer moves into the Image that load returns.
ReturnImage(d) ==
    /\ pc' = "done"
    /\ result' = "Ok"
    /\ image' = ImageOf(width, height, d)
    /\ failures' = failures
    /\ DropLocals

\* A slip: the product is taken unchecked and wraps.
LengthWrapping(w, h) == WrappingMul(w, h)

\* width.checked_mul(height)
Length(w, h) == CheckedMul(w, h)

\* let length = ... .ok_or(FileFormat)?; vec![zero; length]; with no pixels
\* the row loop is skipped and the Image is returned.
Allocate ==
    /\ pc = "alloc"
    /\ LET length == Length(width, height) IN
         IF length = None
           THEN /\ Throw("FileFormat")
                /\ allocated' = allocated
           ELSE LET d == [i \in 0..(length - 1) |-> ZeroRGB] IN
                /\ allocated' = length
                /\ IF HasPixels(length)
                     THEN /\ data' = d
                          /\ pc' = "row"
                          /\ Going
                          /\ UNCHANGED <<touched, cur, l_shift, plane, bytes_left>>
                          /\ UNCHANGED <<streak, writes, raw>>
                     ELSE ReturnImage(d)
    /\ row' = 0
    /\ calls' = calls \cup {"alloc"}
    /\ UNCHANGED <<rdr, hdr, rgbe, code, count, first, scheme>>
    /\ UNCHANGED <<lit, decoded, lookup>>

\* for row in 0..height is over: Ok(Image { width, height, data })
LoadReturn ==
    /\ pc = "row" /\ row >= height
    /\ ReturnImage(data)
    /\ UNCHANGED <<rdr, hdr, row, rgbe, code, count, hist>>
    /\ UNCHANGED <<lit, decoded, lookup>>

(* ----------------------------- scanlines ------------------------------ *)
\* A slip: the row's start is computed from the height.
RowStartByHeight(r) == r * height

\* let start = row * width
RowStart(r) == r * width

\* scanline.len() of the decoder's remaining slice
Remaining == width - cur

\* Write f[i] to data[i] for the indices idxs (those that the buffer has).
WriteSlots(idxs, f) ==
    /\ data' = [i \in DOMAIN data |-> IF i \in idxs THEN f[i] ELSE data[i]]
    /\ touched' = touched \cup idxs
    /\ writes' = [k \in DOMAIN writes |->
                    writes[k] + (IF RowStart(row) + k \in idxs THEN 1 ELSE 0)]

\* The pixel at index i of the buffer.
Pixel(i) == IF i \in DOMAIN data THEN data[i] ELSE ZeroRGB

\* decrunch returned Ok(()) for this row: the row loop goes on.
RowDone ==
    /\ pc' = "row"
    /\ row' = row + 1
    /\ Going

\* The pixels of a row before any pass has given them a byte.
NoBytes == [k \in 0..(width - 1) |-> NoPixel]

\* A slip: the marker alone decides, whatever the width.
UseNewDecrunchAnyWidth(len, px) == is_new_decrunch_marker(px)

\* A slip: the first row's decision is kept for the rows after it.
UseNewDecrunchCached(len, px) ==
    IF scheme # <<>>
      THEN scheme[1] = "new"
      ELSE MIN_LEN <= len /\ len <= MAX_LEN /\ is_new_decrunch_marker(px)

\* (MIN_LEN..=MAX_LEN).contains(&scanline.len()) && rgbe.is_new_decrunch_marker()
UseNewDecrunch(len, px) ==
    /\ MIN_LEN <= len /\ len <= MAX_LEN
    /\ is_new_decrunch_marker(px)

\* decrunch, up to the choice of decoder: read the row's first RawPixel; keep
\* it as pixel 0 and go on with old_decrunch, or drop it and decode planes.
\* The row's slice is data[start..end]; either decoder starts at its offset 0.
decrunch ==
    /\ pc = "row" /\ row < height
    /\ calls' = calls \cup {"decrunch"}
    /\ \/ \E px \in RawPixels :
            /\ ReadOk(4)
            /\ decoded' = decoded + 4
            /\ rgbe' = px
            /\ first' = Append(first, px)
            /\ IF UseNewDecrunch(width, px)
                 THEN /\ scheme' = Append(scheme, "new")
                      /\ pc' = "plane"
                      /\ data' = data /\ touched' = {}
                      /\ cur' = 0 /\ l_shift' = 0 /\ plane' = 0 /\ bytes_left' = 0
                      /\ streak' = 0 /\ raw' = NoBytes
                      /\ writes' = [k \in 0..(width - 1) |-> 0]
                      /\ Going
                 ELSE IF width = 0
                        THEN /\ Panic
                             /\ scheme' = scheme
                        ELSE /\ data' = [i \in DOMAIN data |->
                                          IF i = RowStart(row) THEN RGBFrom(px)
                                                               ELSE data[i]]
                             /\ touched' = {RowStart(row)}
                             /\ cur' = 0 /\ l_shift' = 0 /\ plane' = 0 /\ bytes_left' = 0
                             /\ streak' = 0 /\ raw' = NoBytes
                             /\ writes' = [k \in 0..(width - 1) |->
                                             IF k = 0 THEN 1 ELSE 0]
                             /\ scheme' = Append(scheme, "old")
                             /\ pc' = "old"
                             /\ Going
       \/ \E j \in 0..3 :
            /\ ReadEof(4, j)
            /\ DecodeError(FromIoError("UnexpectedEof"))
            /\ UNCHANGED <<rgbe, first, scheme, decoded>>
       \/ /\ ReadIo
          /\ DecodeError(FromIoError("Other"))
          /\ UNCHANGED <<rgbe, first, scheme, decoded>>
    /\ UNCHANGED <<hdr, row, code, count, allocated, lit, lookup>>

(* --------------------------- old_decrunch ----------------------------- *)
\* usize::checked_shl(1, l_shift).and_then(|f| usize::from(e).checked_mul(f))
OldCount(e, shift) ==
    IF CheckedShl1(shift) = None THEN None ELSE CheckedMul(e, CheckedShl1(shift))

\* A slip: the range is checked as 1..count, one slot short.
OldRunFitsOffByOne(len, cnt) == cnt <= len

\* scanline.get_mut(1..=count) is Some: count + 1 does not overflow and the
\* range 1..count+1 lies in a slice of len slots.
OldRunFits(len, cnt) == cnt # USIZE_MAX /\ cnt + 1 <= len

\* A slip: the shift grows by one bit per marker.
NextShiftByOne(shift) == shift + 1

\* l_shift += 8
NextShift(shift) == shift + 8

\* A slip: the loop runs while any slot is left.
OldLoopRunsToEmpty(len) == len > 0

\* while scanline.len() > 1
OldLoopRuns(len) == len > 1

\* One iteration of `while scanline.len() > 1`.
old_decrunch ==
    /\ pc = "old" /\ OldLoopRuns(Remaining)
    /\ calls' = calls \cup {"old_decrunch"}
    /\ \/ \E px \in RawPixels :
            /\ ReadOk(4)
            /\ decoded' = decoded + 4
            /\ rgbe' = px
            /\ IF is_rle_marker(px)
                 THEN LET cnt == OldCount(px[4], l_shift)
                          at == RowStart(row) + cur IN
                      /\ count' = cnt
                      /\ IF cnt = None \/ ~OldRunFits(Remaining, cnt)
                           THEN DecodeError("Rle")
                           ELSE /\ WriteSlots((at + 1)..(at + cnt),
                                             [i \in (at + 1)..(at + cnt) |-> Pixel(at)])
                                /\ cur' = cur + cnt
                                /\ l_shift' = NextShift(l_shift)
                                /\ streak' = streak + 1
                                /\ UNCHANGED <<pc, plane, bytes_left, raw>>
                                /\ Going
                 ELSE LET at == RowStart(row) + cur IN
                      /\ WriteSlots({at + 1}, [i \in {at + 1} |-> RGBFrom(px)])
                      /\ cur' = cur + 1
                      /\ l_shift' = 0
                      /\ streak' = 0
                      /\ UNCHANGED <<count, pc, plane, bytes_left, raw>>
                      /\ Going
       \/ \E j \in 0..3 :
            /\ ReadEof(4, j)
            /\ DecodeError(FromIoError("UnexpectedEof"))
            /\ UNCHANGED <<rgbe, count, decoded>>
       \/ /\ ReadIo
          /\ DecodeError(FromIoError("Other"))
          /\ UNCHANGED <<rgbe, count, decoded>>
    /\ UNCHANGED <<hdr, row, code, first, scheme, allocated, lit, lookup>>

\* The loop ends with at most one slot left: Ok(()).
old_decrunch_return ==
    /\ pc = "old" /\ ~OldLoopRuns(Remaining)
    /\ RowDone
    /\ UNCHANGED <<rdr, hdr, data, touched, dec, hist, obs, lookup>>

(* ------------------------- decrunch_channel --------------------------- *)
\* A slip: the run may end one pixel past the row.
RunFitsOffByOne(len, cnt) == cnt <= len + 1

\* scanline.get_mut(..count) is Some
RunFits(len, cnt) == cnt <= len

\* code & 127
RunCount(c) == c % 128

\* The pixels at..at+cnt-1 of the row get vals[1..cnt] in the pass's plane.
WritePlane(at, cnt, vals) ==
    /\ WriteSlots(at..(at + cnt - 1),
                  [i \in at..(at + cnt - 1) |->
                       mutate_pixel(plane, Pixel(i), vals[i - at + 1])])
    /\ raw' = [k \in DOMAIN raw |->
                 LET i == RowStart(row) + k IN
                 IF i \in at..(at + cnt - 1)
                   THEN [raw[k] EXCEPT ![plane + 1] = vals[i - at + 1]]
                   ELSE raw[k]]

\* One iteration of `while !scanline.is_empty()`: the control byte, and for a
\* run its data byte and its pixels; a literal starts its copy loop.
decrunch_channel ==
    /\ pc = "plane" /\ Remaining > 0
    /\ calls' = calls \cup {"decrunch_channel"}
    /\ \/ \E c \in Codes :
            /\ code' = c
            /\ IF c > 128
                 THEN LET cnt == RunCount(c) IN
                      /\ count' = cnt
                      /\ lit' = lit
                      /\ IF ~RunFits(Remaining, cnt)
                           THEN /\ ReadOk(1)
                                /\ decoded' = decoded + 1
                                /\ DecodeError("Rle")
                           ELSE \/ \E val \in Vals :
                                     /\ val = LitByte(DataPos + 1)
                                     /\ ReadOk(2)
                                     /\ decoded' = decoded + 2
                                     /\ WritePlane(RowStart(row) + cur, cnt,
                                                   [i \in 1..cnt |-> val])
                                     /\ cur' = cur + cnt
                                     /\ UNCHANGED <<pc, l_shift, plane, bytes_left, streak>>
                                     /\ Going
                                \/ /\ buffered < 2
                                   /\ Consume(1)
                                   /\ hitEof' = TRUE
                                   /\ decoded' = decoded + 1
                                   /\ DecodeError(FromIoError("UnexpectedEof"))
                                \/ /\ ReadOk(1)
                                   /\ decoded' = decoded + 1
                                   /\ DecodeError(FromIoError("Other"))
                 ELSE /\ ReadOk(1)
                      /\ decoded' = decoded + 1
                      /\ bytes_left' = c
                      /\ lit' = IF c > 0
                                  THEN [at |-> DataPos + 1, room |-> Remaining, n |-> c]
                                  ELSE lit
                      /\ pc' = IF c > 0 THEN "literal" ELSE "plane"
                      /\ UNCHANGED <<count, data, touched, cur, l_shift, plane>>
                      /\ UNCHANGED <<streak, writes, raw>>
                      /\ Going
       \/ /\ ReadEof(1, 0)
          /\ DecodeError(FromIoError("UnexpectedEof"))
          /\ UNCHANGED <<code, count, lit, decoded>>
       \/ /\ ReadIo
          /\ DecodeError(FromIoError("Other"))
          /\ UNCHANGED <<code, count, lit, decoded>>
    /\ UNCHANGED <<hdr, row, rgbe, first, scheme, allocated, lookup>>

\* A slip: the bytes copied are left in the buffer.
ConsumedNothing(n, cnt) == 0

\* A slip: the whole chunk that fill_buf returned is consumed.
ConsumedWholeChunk(n, cnt) == n

\* reader.consume(count)
Consumed(n, cnt) == cnt

\* A slip: the whole chunk is copied, the bytes owed forgotten.
LiteralCountWholeChunk(n, left) == n

\* buf.len().min(bytes_left)
LiteralCount(n, left) == Min(n, left)

\* One iteration of `while bytes_left > 0`: fill_buf, the copy of
\* min(buf.len(), bytes_left) bytes, consume. fill_buf hands out the bytes
\* already buffered, or refills with 1..MaxChunk bytes, or finds the end.
literal_copy ==
    /\ pc = "literal" /\ bytes_left > 0
    /\ \/ \E n \in 1..MaxChunk :
            /\ IF buffered > 0 THEN n = buffered ELSE DataPos + n <= MaxData
            /\ LET cnt == LiteralCount(n, bytes_left) IN
               /\ count' = cnt
               /\ IF ~RunFits(Remaining, cnt)
                    THEN /\ DecodeError("Rle")
                         /\ buffered' = n
                         /\ UNCHANGED <<pos, hitEof, lit, decoded>>
                    ELSE /\ WritePlane(RowStart(row) + cur, cnt,
                                       [i \in 1..cnt |-> LitByte(DataPos + i - 1)])
                         /\ decoded' = decoded + cnt
                         /\ cur' = cur + cnt
                         /\ pos' = pos + Consumed(n, cnt)
                         /\ buffered' = n - Consumed(n, cnt)
                         /\ bytes_left' = bytes_left - cnt
                         /\ pc' = IF bytes_left - cnt > 0 THEN "literal" ELSE "plane"
                         /\ lit' = IF bytes_left - cnt > 0 THEN lit ELSE NoLit
                         /\ UNCHANGED <<hitEof, l_shift, plane, streak>>
                         /\ Going
       \/ /\ buffered = 0
          /\ hitEof' = TRUE
          /\ DecodeError("Eof")
          /\ UNCHANGED <<count, pos, buffered, lit, decoded>>
       \/ /\ buffered = 0
          /\ ReadIo
          /\ DecodeError(FromIoError("Other"))
          /\ UNCHANGED <<count, lit, decoded>>
    /\ UNCHANGED <<hdr, row, rgbe, code, hist, lookup>>

\* A slip: the next pass goes on from where the last one stopped.
PassStartKept == cur

\* let mut scanline = &mut scanline[..]: a pass starts at the row's slot 0.
PassStart == 0

\* The pass has filled the row: Ok(()); the next plane's pass starts at the
\* row's first pixel, or after the exponent pass decrunch returns Ok(()).
decrunch_channel_return ==
    /\ pc = "plane" /\ Remaining = 0
    /\ IF plane < 3
         THEN /\ plane' = plane + 1
              /\ cur' = PassStart
              /\ writes' = [k \in DOMAIN writes |-> 0]
              /\ UNCHANGED <<ctl, row>>
         ELSE /\ RowDone
              /\ UNCHANGED <<plane, cur, writes>>
    /\ UNCHANGED <<rdr, hdr, data, touched, l_shift, bytes_left, rgbe, code, count, hist>>
    /\ UNCHANGED <<lit, streak, raw, decoded, lookup>>

(* -------------------------------- Image ------------------------------- *)
\* Coordinates a caller may pass: the small ones and a value large enough
\* for the offset to leave the word.
Coords(huge) == (0..MaxCoord) \cup {huge}

\* self.width * y + x, None where the arithmetic leaves the word.
pixel_offset(im, x, y) ==
    LET prod == CheckedMul(im.width, y) IN
    IF prod = None \/ prod > USIZE_MAX - x THEN None ELSE prod + x

\* self.width * y + x in a build without overflow checks.
WrappedOffset(im, x, y) == (WrappingMul(im.width, y) + x) % (USIZE_MAX + 1)

\* &self.data[offset]: the pixel, or a panic when offset >= data.len().
Index(im, x, y, offset) ==
    IF offset \in DOMAIN im.data
      THEN [x |-> x, y |-> y, panic |-> FALSE, px |-> im.data[offset], none |-> FALSE]
      ELSE [x |-> x, y |-> y, panic |-> TRUE, px |-> ZeroRGB, none |-> FALSE]

\* Image::pixel(x, y) on the Image that load returned. Where width * y + x
\* overflows, a build with overflow checks panics and one without wraps.
\* The Image does not change: one call is followed.
pixel ==
    /\ pc = "done" /\ result = "Ok" /\ lookup.none
    /\ \E x \in Coords(USIZE_MAX), y \in Coords(Pow2(USIZE_BITS - 1)) :
         LET offset == pixel_offset(image, x, y) IN
         IF offset # None
           THEN lookup' = Index(image, x, y, offset)
           ELSE \/ lookup' = Index(image, x, y, None)
                \/ lookup' = Index(image, x, y, WrappedOffset(image, x, y))
    /\ UNCHANGED <<ctl, rdr, hdr, img, dec, hist, obs>>

Next ==
    \/ ReadMagic
    \/ parse_header
    \/ Allocate
    \/ decrunch
    \/ old_decrunch
    \/ old_decrunch_return
    \/ decrunch_channel
    \/ literal_copy
    \/ decrunch_channel_return
    \/ LoadReturn
    \/ pixel

Spec == Init /\ [][Next]_vars

\* The steps of load itself, up to its return.
LoadNext ==
    \/ ReadMagic
    \/ parse_header
    \/ Allocate
    \/ decrunch
    \/ old_decrunch
    \/ old_decrunch_return
    \/ decrunch_channel
    \/ literal_copy
    \/ decrunch_channel_return
    \/ LoadReturn

\* load is sequential code on a running thread: a step that can be taken is
\* taken.
FairSpec == Init /\ [][LoadNext]_vars /\ WF_vars(LoadNext)

(* ------------------------------ properties ---------------------------- *)
Errors == {"Io", "Eof", "FileFormat", "Rle"}

\* Every slot of the image's buffer, and no other index.
Slots(w, h) == 0..(w * h - 1)

\* C1: load returns a complete Image or exactly one error, never both: the
\* first step that fails ends load with that step's error, nothing runs after
\* it, and no Image is returned, not even with the rows decoded before it.
LoadReturnsImageOrFirstError ==
    /\ Len(failures) <= 1
    /\ failures # <<>> => pc = "done"
    /\ pc # "done" => result = "none" /\ image = NoImage
    /\ pc = "done" =>
         \/ /\ result = "Ok"
            /\ failures = <<>>
            /\ ~image.none
            /\ DOMAIN image.data = Slots(image.width, image.height)
            /\ DOMAIN image.data # {} => row = height /\ Len(scheme) = height
         \/ /\ result \in Errors
            /\ failures = <<result>>
            /\ image = NoImage

\* Row 1 fails with an RLE error after row 0 was decoded: only the error is
\* returned.
SecondRowFails ==
    /\ pc = "done" /\ result = "Rle" /\ row = 1 /\ Len(scheme) = 2
    /\ image = NoImage

\* C2: a read that runs past the end of the input makes load return Eof:
\* no panic, and no Image.
TruncatedInputIsEof ==
    /\ result # "Panic"
    /\ hitEof => pc = "done" /\ result = "Eof" /\ image = NoImage
    /\ result = "Ok" => ~hitEof

\* The input ends in the middle of a two-byte literal, after its first byte.
EofInsideLiteral ==
    /\ hitEof /\ result = "Eof" /\ code = 2 /\ count = 1

\* The slots of row y of an image w pixels wide.
RowSlots(w, y) == (w * y)..(w * y + w - 1)

\* C3: in the old-format decoder, an RLE marker whose count exceeds
\* W - 1 - (the slots the cursor has passed) fails the decode with Rle, a
\* count within that bound is accepted, and no step of the decoder, marker or
\* not, writes a slot outside the row.
OldRunOverflowIsRle ==
    [][ (pc = "old" /\ Remaining > 1 /\ pos' = pos + 4) =>
          /\ touched' \subseteq RowSlots(width, row)
          /\ (rgbe'[1] = 1 /\ rgbe'[2] = 1 /\ rgbe'[3] = 1) =>
               LET exact == rgbe'[4] * Pow2(l_shift) IN
               /\ exact > width - 1 - cur => result' = "Rle" /\ image' = NoImage
               /\ result' = "Rle" => count' = None \/ exact > width - 1 - cur
               /\ result' # "Rle" =>
                    /\ pc' = "old" /\ cur' = cur + exact
                    /\ touched' = touched \cup
                         ((width * row + cur + 1)..(width * row + cur + exact))
      ]_vars

\* A marker of count 7 in a row of 8 pixels, after the cursor has moved on
\* from slot 0, is refused.
OldRunRefused ==
    /\ result = "Rle" /\ width = 8 /\ scheme = <<"old">>
    /\ rgbe = <<1, 1, 1, 7>> /\ count = 7

\* C4: in any plane pass of the new-format decoder, a run whose count
\* (control & 0x7f) exceeds the pixels of the row not yet filled in that pass
\* fails the decode with Rle before its data byte is read, a run that fits
\* does not, and no pixel outside the row is written.
RunOverflowIsRle ==
    [][ (pc = "plane" /\ Remaining > 0 /\ pos' > pos /\ code' > 128) =>
          LET cnt == code' - 128 IN
          /\ cnt > width - cur <=> result' = "Rle"
          /\ result' = "Rle" => pos' = pos + 1 /\ image' = NoImage
          /\ result' = "none" =>
               /\ cur' = cur + cnt
               /\ touched' = touched \cup
                    ((width * row + cur)..(width * row + cur + cnt - 1))
               /\ touched' \subseteq RowSlots(width, row)
      ]_vars

\* A run of 6 pixels is refused in the exponent pass, the last of the four.
RunRefusedInLastPass ==
    /\ result = "Rle" /\ plane = 3 /\ code = 134 /\ width = 8

SchemeChosenPerRow ==
    /\ [](/\ Len(scheme) = Len(first)
          /\ \A k \in 1..Len(scheme) :
               scheme[k] = IF 8 <= width /\ width <= 32767
                                /\ first[k][1] = 2 /\ first[k][2] = 2
                                /\ first[k][3] < 128
                             THEN "new" ELSE "old")
    /\ [][ (pc = "row" /\ pc' \in {"old", "plane"}) =>
            /\ Len(scheme') = row + 1
            /\ cur' = 0 /\ l_shift' = 0 /\ plane' = 0 /\ bytes_left' = 0
       ]_vars

\* A file of two rows, the first in the new format and the second in the old.
SchemesAlternate ==
    /\ result = "Ok" /\ scheme = <<"new", "old">>

\* C7: the Image returned has width * height pixels; while row y is decoded
\* only slots of [width*y, width*y + width) are written, and all of them by
\* the time the row is done.
RowsStayInTheirSlice ==
    /\ result = "Ok" =>
         /\ Cardinality(DOMAIN image.data) = image.width * image.height
         /\ DOMAIN image.data = Slots(image.width, image.height)
    /\ pc \in {"row", "old", "plane", "literal"} =>
         DOMAIN data = Slots(width, height)
    /\ pc \in {"old", "plane", "literal"} =>
         touched \subseteq RowSlots(width, row)
    /\ (pc = "row" /\ row > 0) => touched = RowSlots(width, row - 1)

\* The second row of a 2 x 2 image has been decoded into slots 2 and 3.
SecondRowDecoded ==
    /\ pc = "row" /\ row = 2 /\ width = 2 /\ height = 2
    /\ touched = {2, 3}

\* The header has been parsed.
HeaderParsed == hdrEnd # 0

\* width * height does not fit a usize.
Overflows(w, h) == w # 0 /\ h > USIZE_MAX \div w

\* C8: when width * height overflows a usize, load fails with FileFormat,
\* with no buffer allocated and no byte read after the header.
OverflowIsFileFormat ==
    (HeaderParsed /\ Overflows(width, height)) =>
        /\ allocated = None
        /\ pos = hdrEnd
        /\ "decrunch" \notin calls
        /\ pc = "alloc" \/ (pc = "done" /\ result = "FileFormat" /\ image = NoImage)

\* width = usize::MAX, height = 2 is refused.
OverflowRefused ==
    /\ result = "FileFormat" /\ HeaderParsed
    /\ width = USIZE_MAX /\ height = 2

\* C9: with width = 0 or height = 0 load returns an empty Image and reads
\* nothing after the header: no dispatcher call, no RawPixel read.
ZeroAreaReadsNothing ==
    (HeaderParsed /\ (width = 0 \/ height = 0) /\ pc # "alloc") =>
        /\ pc = "done" /\ result = "Ok"
        /\ ~image.none /\ DOMAIN image.data = {}
        /\ image.width = width /\ image.height = height
        /\ pos = hdrEnd /\ ~hitEof
        /\ first = <<>> /\ "decrunch" \notin calls

\* A header of width 0 and height 2.
ZeroWidthImage ==
    /\ result = "Ok" /\ HeaderParsed /\ width = 0 /\ height = 2

\* C10: the magic check comes first; a stream whose first 10 bytes are not
\* the signature makes load return FileFormat having consumed those 10 bytes
\* and no more, the header parser not entered.
MagicCheckedFirst ==
    /\ pos = 0 /\ ~hitEof => pc = "magic" \/ (result = "Io" /\ calls = {"magic"})
    /\ (buf # <<>> /\ buf # <<35, 63, 82, 65, 68, 73, 65, 78, 67, 69>>) =>
         /\ pc = "done" /\ result = "FileFormat" /\ image = NoImage
         /\ pos = 10 /\ ~hitEof
         /\ calls = {"magic"}

\* The tenth byte differs from the signature's.
BadMagicRefused ==
    /\ result = "FileFormat" /\ pos = 10
    /\ buf = <<35, 63, 82, 65, 68, 73, 65, 78, 67, 0>>

\* C11: with width = 1 every row consumes exactly the 4 bytes of one RawPixel,
\* the row's pixel is the direct conversion of that RawPixel, marker-shaped or
\* not, and the body of the old-format loop never runs.
SinglePixelRows ==
    (HeaderParsed /\ width = 1 /\ height >= 1) =>
        /\ "old_decrunch" \notin calls
        /\ \A k \in 1..Len(scheme) : scheme[k] = "old"
        /\ pc = "old" =>
              /\ pos = hdrEnd + 4 * (row + 1)
              /\ \A k \in 0..row : data[k] = RGBFrom(first[k + 1])
        /\ pc = "row" =>
              /\ pos = hdrEnd + 4 * row
              /\ \A k \in 0..(row - 1) : data[k] = RGBFrom(first[k + 1])
        /\ result = "Ok" =>
              /\ pos = hdrEnd + 4 * height
              /\ Len(first) = height
              /\ \A k \in 0..(height - 1) : image.data[k] = RGBFrom(first[k + 1])

\* Two rows of one pixel: an old-format RLE marker's bytes, then a new-format
\* marker's bytes, both kept as pixels.
MarkerShapedSinglePixels ==
    /\ result = "Ok" /\ width = 1 /\ height = 2
    /\ first = << <<1, 1, 1, 7>>, <<2, 2, 0, 8>> >>
    /\ image.data[0] = RGBFrom(<<1, 1, 1, 7>>)

\* C12: Image::pixel(x, y) panics whenever x >= width or y >= height, and
\* otherwise returns the pixel of row y, column x (stated for the coordinates
\* whose offset width * y + x fits a usize).
PixelPanicsOutOfRange ==
    (~lookup.none /\ pixel_offset(image, lookup.x, lookup.y) # None) =>
        IF lookup.x >= image.width \/ lookup.y >= image.height
          THEN lookup.panic
          ELSE /\ ~lookup.panic
               /\ lookup.px = image.data[image.width * lookup.y + lookup.x]

\* The outcome of the literal loop (lib.rs 226-250) over a source that holds
\* avail more bytes and hands them out at most chunk at a time: left bytes
\* are owed, room pixels are unfilled.
RECURSIVE LiteralLoop(_, _, _, _)
LiteralLoop(avail, left, room, chunk) ==
    IF left = 0 THEN "Ok"
    ELSE IF avail = 0 THEN "Eof"
    ELSE LET cnt == LiteralCount(Min(chunk, avail), left) IN
         IF ~RunFits(room, cnt) THEN "Rle"
         ELSE LiteralLoop(avail - cnt, left - cnt, room - cnt, chunk)

\* Uniform chunk sizes: a byte at a time, a few bytes, the whole literal.
Chunkings == (1..(MaxChunk + 1)) \cup {128}

\* Bytes of the current literal copied so far.
Copied == DataPos - lit.at

\* The row offset of the first pixel of the current literal.
LitStart == width - lit.room

\* C13: what a new-format literal decodes to does not depend on how the
\* source splits its bytes into chunks: after any number of chunks the k
\* bytes copied are the k bytes that follow the control byte, given in order
\* to the next k pixels; the literal ends having copied exactly its count;
\* and when it fails, with Eof or Rle, it fails as it would have with the
\* same bytes delivered one at a time, or all at once.
ChunkingDoesNotMatter ==
    /\ [](pc = "literal" =>
            /\ lit.n = code /\ bytes_left = lit.n - Copied
            /\ Copied >= 0 /\ cur = LitStart + Copied
            /\ \A k \in 0..(Copied - 1) :
                  raw[LitStart + k][plane + 1] = LitByte(lit.at + k))
    /\ [](pc = "done" /\ lit # NoLit /\ result \in {"Eof", "Rle"} =>
            LET avail == IF result = "Eof" THEN Copied ELSE Copied + buffered IN
            \A chunk \in Chunkings :
                LiteralLoop(avail, lit.n, lit.room, chunk) = result)
    /\ [][ (pc = "literal" /\ pc' = "plane") =>
             /\ DataPos' = lit.at + lit.n
             /\ cur' = LitStart + lit.n
             /\ \A k \in 0..(lit.n - 1) :
                   raw'[LitStart + k][plane + 1] = LitByte(lit.at + k)
             /\ \A chunk \in Chunkings :
                   LiteralLoop(lit.n, lit.n, lit.room, chunk) = "Ok"
       ]_vars

\* A literal of 128 bytes in a row of 8 pixels is refused only at its third
\* chunk, after 5 bytes were copied.
RleAfterPartialLiteral ==
    /\ result = "Rle" /\ lit.n = 128 /\ width = 8
    /\ Copied = 5 /\ buffered > 0

\* C14: in a plane pass of the new format, a literal whose count exceeds the
\* pixels of the row not yet filled in that pass makes the decode fail with
\* Rle (the source's own io failures aside).
OverlongLiteralIsRle ==
    (pc = "done" /\ lit.n > lit.room) => result \in {"Rle", "Io"}

\* C15: in the old-format decoder l_shift is 0 at the start of every row,
\* grows by 8 with each RLE marker and returns to 0 with each other pixel, so
\* that the k-th marker in a row of markers counts e * 2^(8k) (where that is
\* computed at all); an accepted marker copies the pixel at the cursor into
\* the next count slots and moves the cursor by count, and any other pixel
\* is converted into the next slot and moves the cursor by one.
OldShiftAndCopy ==
    /\ [](pc = "old" => l_shift = 8 * streak)
    /\ [][ (pc = "row" /\ pc' = "old") => l_shift' = 0 /\ streak' = 0 ]_vars
    /\ [][ (pc = "old" /\ pos' = pos + 4) =>
             LET px == rgbe'
                 at == width * row + cur IN
             IF px[1] = 1 /\ px[2] = 1 /\ px[3] = 1
               THEN /\ count' # None => count' = px[4] * Pow2(8 * streak)
                    /\ pc' = "old" =>
                         /\ l_shift' = l_shift + 8 /\ streak' = streak + 1
                         /\ cur' = cur + count'
                         /\ data' = [i \in DOMAIN data |->
                                       IF i \in (at + 1)..(at + count')
                                         THEN data[at] ELSE data[i]]
               ELSE /\ pc' = "old"
                    /\ l_shift' = 0 /\ streak' = 0
                    /\ cur' = cur + 1
                    /\ data' = [data EXCEPT ![at + 1] = RGBFrom(px)]
       ]_vars

\* A marker, a pixel, a marker: the second marker counts from l_shift = 0
\* again and repeats the pixel before it.
MarkerAfterPixelStartsAnew ==
    /\ pc = "old" /\ cur = 3 /\ streak = 1 /\ l_shift = 8 /\ count = 1
    /\ rgbe = <<1, 1, 1, 1>>
    /\ data[width * row + 3] = data[width * row + 2]
    /\ data[width * row + 1] = data[width * row]
    /\ data[width * row + 2] # data[width * row + 1]

\* C16: an old-format marker's count is the exact integer e * 2^l_shift: the
\* marker fails with Rle exactly when that integer does not fit a usize or
\* exceeds the slots remaining after the cursor, and is accepted otherwise.
ExactCountDecides ==
    [][ (pc = "old" /\ pos' = pos + 4
           /\ rgbe'[1] = 1 /\ rgbe'[2] = 1 /\ rgbe'[3] = 1) =>
          LET exact == rgbe'[4] * Pow2(l_shift) IN
          (result' = "Rle") <=> (exact > USIZE_MAX \/ exact > width - 1 - cur)
      ]_vars

\* Every pixel of the row has been assigned once in the current pass.
PassComplete == \A k \in 0..(width - 1) : writes[k] = 1

\* C17: a new-format row is decoded in four passes, red, green, blue,
\* exponent, in that order: each pass starts at slot 0, its cursor only moves
\* forward, it assigns a byte of its own plane to each pixel exactly once and
\* ends when exactly width pixels are filled; no byte is read for a pass
\* whose row is already full, and the next pass begins only then.
FourPassesInOrder ==
    /\ [](pc \in {"plane", "literal"} =>
            /\ plane \in 0..3 /\ cur \in 0..width
            /\ \A k \in 0..(width - 1) : writes[k] = IF k < cur THEN 1 ELSE 0)
    /\ [][ (pc = "row" /\ pc' = "plane") => plane' = 0 /\ cur' = 0 ]_vars
    /\ [][ (pc \in {"plane", "literal"} /\ pc' \in {"plane", "literal"}) =>
             /\ IF plane' # plane
                  THEN /\ plane' = plane + 1 /\ cur = width /\ cur' = 0
                       /\ PassComplete
                       /\ pos' = pos /\ raw' = raw /\ data' = data
                  ELSE cur' >= cur
             /\ pos' # pos => cur < width
             /\ \A k \in 0..(width - 1) : \A q \in 1..4 :
                   raw'[k][q] # raw[k][q] => q = plane + 1 /\ k \in cur..(cur' - 1)
       ]_vars
    /\ [][ (pc \in {"plane", "literal"} /\ pc' = "row") =>
             /\ plane = 3 /\ cur = width /\ PassComplete
             /\ pos' = pos /\ data' = data
       ]_vars

\* A row has gone through its four passes; the exponent pass ended with two
\* pixels at once.
FourPassesDone ==
    /\ pc = "row" /\ row = 1 /\ scheme = <<"new">> /\ plane = 3
    /\ PassComplete /\ cur = width /\ count = 2
    /\ \A k \in 0..(width - 1) : \A q \in 1..4 : raw[k][q] # 0

\* The exposure factor has been applied n times to every channel of p.
Exposed(p, n) == p.r.s = n /\ p.g.s = n /\ p.b.s = n

\* C18 as claimed: the exponent pass stores raw exponent bytes and the
\* exposure conversion is applied only after all four passes are over: while
\* the exponent pass runs, no pixel of the row has the factor applied.
ExposureAfterAllPasses ==
    (pc \in {"plane", "literal"} /\ plane = 3) =>
        \A k \in 0..(width - 1) : Exposed(data[width * row + k], 0)

\* C18: the exponent pass applies the exposure conversion to each pixel as
\* it decodes that pixel's exponent byte: during the pass the pixels behind
\* the cursor carry the factor once and the others not at all, and when the
\* row is done every pixel equals the RGBE conversion of the four bytes the
\* passes gave it, the factor applied exactly once.
ExposureInExponentPass ==
    /\ (pc \in {"plane", "literal"}) =>
          \A k \in 0..(width - 1) :
             LET p == data[width * row + k]
                 b == raw[k] IN
             IF plane = 3 /\ k < cur
               THEN p = RGBFrom(b) /\ Exposed(p, 1)
               ELSE /\ Exposed(p, 0)
                    /\ plane > 0 \/ k < cur => p.r = AsF32(b[1])
                    /\ plane > 1 \/ (plane = 1 /\ k < cur) => p.g = AsF32(b[2])
                    /\ plane > 2 \/ (plane = 2 /\ k < cur) => p.b = AsF32(b[3])
    /\ (pc = "row" /\ row > 0 /\ scheme[row] = "new") =>
          \A k \in 0..(width - 1) :
             /\ data[width * (row - 1) + k] = RGBFrom(raw[k])
             /\ Exposed(data[width * (row - 1) + k], 1)
             /\ \A q \in 1..4 : raw[k][q] \in {2, 129}

\* Half way through the exponent pass: the first four pixels are converted,
\* the last four still hold their raw mantissas.
ExponentPassHalfWay ==
    /\ pc = "plane" /\ plane = 3 /\ width = 8 /\ cur = 4
    /\ Exposed(data[width * row], 1) /\ Exposed(data[width * row + 7], 0)

\* C20: the decoder consumes no byte that it has not decoded. Each chunk of
\* a literal consumes as many bytes as it gives pixels, at most the bytes
\* buffered, the bytes the literal still owes and the pixels the pass has
\* left; what fill_buf showed beyond that stays buffered. Unless a RawPixel
\* was cut short by the end of the stream, the bytes consumed after the
\* header are exactly the bytes decoded, so a successful load leaves the
\* source right after the last row's encoding.
ConsumesOnlyWhatItDecodes ==
    /\ [](HeaderParsed =>
            /\ buffered >= 0
            /\ DataPos - decoded \in 0..3
            /\ ~hitEof => DataPos = decoded
            /\ result = "Ok" => pos = hdrEnd + decoded)
    /\ [][ (pc = "literal" /\ pc' # "done") =>
             LET n == pos' - pos IN
             /\ n >= 1 /\ n = cur' - cur /\ n = decoded' - decoded
             /\ n <= bytes_left /\ n <= width - cur
             /\ buffered > 0 => n <= buffered /\ buffered' = buffered - n
             /\ buffered' >= 0
             /\ bytes_left' = bytes_left - n
       ]_vars

\* The last row ends in a literal of two bytes, copied from a chunk of three:
\* the third byte is still buffered when load returns.
PeekedByteLeftBuffered ==
    /\ result = "Ok" /\ scheme = <<"new">> /\ buffered = 1
    /\ pos = hdrEnd + decoded

\* A decoder loop is about to run an iteration.
InLoop ==
    \/ pc = "old" /\ width - cur > 1
    \/ pc = "plane" /\ cur < width
    \/ pc = "literal"

\* C19: load terminates on every finite stream: each iteration of the
\* old-format loop, of a plane loop and of the literal-copy loop consumes at
\* least one byte or ends load with an error, also when it moves no cursor
\* (a marker or a literal of count 0).
LoadTerminates ==
    /\ [][ InLoop => pos' > pos \/ (pc' = "done" /\ result' \in Errors) ]_vars
    /\ [](DataPos <= MaxData \/ ~HeaderParsed)
    /\ <>(pc = "done")

\* An old-format marker of count 0 was accepted, moving nothing, and the
\* stream ended at the next read.
EofAfterEmptyRun ==
    /\ pc = "done" /\ result = "Eof" /\ scheme = <<"old">>
    /\ rgbe = <<1, 1, 1, 0>> /\ count = 0

====
